---- MODULE Spec2Model ----
(***************************************************************************)
(* Rainfall station consolidator (src/python/station1.py, run.py) and the  *)
(* NDVI/rainfall lag correlation tool (src/python/landsat.py).             *)
(*                                                                         *)
(* Numbers: rain amounts are integers (tenths of a millimetre), fractions  *)
(* and thresholds are integers in thousandths (PctMissing 0.333 is 333).   *)
(* Text: a string the code orders or parses is a sequence of character     *)
(* codes (48..57 are the digits, 45 is the hyphen, 46 the dot).            *)
(***************************************************************************)
EXTENDS Integers, Sequences, FiniteSets, TLC

VARIABLES
    pc,                 \* position of the running script
    \* station1.py: the tables of one run
    df,                 \* the daily records table (load_folder's result)
    missing_threshold,  \* summarize_*'s missing_threshold, in thousandths
    min_months,         \* summarize_annual's min_months
    monthly,            \* summarize_monthly's result
    wide,               \* pivot_wide's result
    annual,             \* summarize_annual's result
    annual_wide,        \* pivot_wide_annual's result
    \* station1.py: load_folder
    folder,             \* the CSV files of input_folder, by name
    date_format,        \* load_folder's date_format
    csv_files,          \* glob's list of the folder's files
    raised,             \* the exception that ended the run, "" when none
    \* station1.py: safe_save_csv
    outputs,            \* the output paths the script saves to, in order
    disk,               \* the files written so far: path -> table
    saves,              \* the safe_save_csv calls made so far
    \* landsat.py: lagged_correlations
    ndvi_df,            \* load_ndvi_table's result
    rain_df,            \* load_rainfall's result
    season,             \* lagged_correlations' season
    lags,               \* lagged_correlations' lags
    corr                \* lagged_correlations' result

stationVars == <<df, missing_threshold, min_months, monthly, wide, annual, annual_wide>>
loadVars == <<folder, date_format, csv_files, raised>>
saveVars == <<outputs, disk, saves>>
lagVars == <<ndvi_df, rain_df, season, lags, corr>>
vars == <<pc, stationVars, loadVars, saveVars, lagVars>>

\* ------------------------------------------------------------------ bounds
\* rows of a validated daily table
MaxRows == 3
\* rows of one CSV file of the input folder
MaxFileRows == 2

\* ------------------------------------------------------- missing markers
\* pd.to_numeric(errors="coerce") leaves NaN for a rain value it cannot read
NaN == -1
\* an empty metadata cell of a CSV file (read_csv leaves NaN there)
NA == "NaN"
\* a value never assigned yet
None == <<>>

isna(x) == x = NaN

\* ------------------------------------------------------------------ text
RECURSIVE Digits(_, _)
\* n in decimal, zero padded to at least `width` characters
Digits(n, width) ==
    IF n < 10 /\ width <= 1 THEN <<48 + n>>
    ELSE Append(Digits(n \div 10, width - 1), 48 + (n % 10))

\* str(c) of an integer year column label
StrOfInt(n) == Digits(n, 1)

\* str.isdigit()
IsDigitStr(s) == Len(s) > 0 /\ \A i \in 1..Len(s) : s[i] >= 48 /\ s[i] <= 57

RECURSIVE IntOfStr(_)
\* int(c) of a string of digits
IntOfStr(s) ==
    IF Len(s) = 0 THEN 0
    ELSE 10 * IntOfStr(SubSeq(s, 1, Len(s) - 1)) + (s[Len(s)] - 48)

\* str(Period('M')): "2020-02"
YearMonthStr(d) == Digits(d.year, 4) \o <<45>> \o Digits(d.month, 2)

RECURSIVE StrLess(_, _)
\* Python's order of two strings: the first differing character decides, a
\* proper prefix comes first
StrLess(s, t) ==
    IF t = <<>> THEN FALSE
    ELSE IF s = <<>> THEN TRUE
    ELSE IF s[1] # t[1] THEN s[1] < t[1]
    ELSE StrLess(Tail(s), Tail(t))

\* --------------------------------------------------------------- sorting
\* a sequence given as a function on 1..n, as a tuple
AsTuple(f) == f \o <<>>

\* a stable sort: s ordered by Less, ties in their order in s
SortStable(s, Less(_, _)) ==
    LET n == Len(s)
        rank == AsTuple([i \in 1..n |-> 1 + Cardinality({j \in 1..n :
                        Less(s[j], s[i]) \/ (~Less(s[i], s[j]) /\ j < i)})])
    IN  AsTuple([k \in 1..n |-> s[CHOOSE i \in 1..n : rank[i] = k]])

\* the elements of a finite set in the strict total order Less
SortedSeqOf(S, Less(_, _)) ==
    LET rank(x) == 1 + Cardinality({y \in S : Less(y, x)})
    IN  AsTuple([k \in 1..Cardinality(S) |-> CHOOSE x \in S : rank(x) = k])

\* <<Op(s[1]), ..., Op(s[n])>>
MapRows(s, Op(_)) == AsTuple([i \in 1..Len(s) |-> Op(s[i])])

RECURSIVE SumSeq(_)
SumSeq(s) == IF s = <<>> THEN 0 ELSE s[1] + SumSeq(Tail(s))

\* ----------------------------------------------------------- input domain
\* station identity: "Station Number" and "Station Name"; the name stands for
\* each of the six metadata columns that are grouped on but never sorted on
Stations ==
    { [StationNumber |-> 1, StationName |-> "Clara"],
      [StationNumber |-> 1, StationName |-> "Clara Bog"],
      [StationNumber |-> 2, StationName |-> NA] }

\* two months of one year (2 and 10: only the zero padding of "2020-02" puts
\* it before "2020-10") and a month of the next year
Dates ==
    { [year |-> 2020, month |-> 2], [year |-> 2020, month |-> 10],
      [year |-> 2021, month |-> 2] }
RainValues == {NaN, 2}

\* a validated daily record: META_COLS, date (day of month is never read), rain
DailyRows ==
    { [StationNumber |-> s.StationNumber, StationName |-> s.StationName,
       date |-> d, rain |-> r] : s \in Stations, d \in Dates, r \in RainValues }

\* how pandas orders metadata cells when it sorts group keys: NaN last
NameRank(name) ==
    CASE name = "Clara" -> 1
      [] name = "Clara Bog" -> 2
      [] OTHER -> 3

RowCode(r) ==
    ((((r.StationNumber * 10 + NameRank(r.StationName)) * 10000 + r.date.year) * 100
        + r.date.month) * 10) + (r.rain + 1)

RECURSIVE Tables(_)
\* the tables of exactly k daily records, one per multiset of rows (every
\* aggregation below is a sum, a count or a set of the group's rows)
Tables(k) ==
    IF k = 0 THEN {<<>>}
    ELSE { Append(p[1], p[2]) :
             p \in { q \in Tables(k - 1) \X DailyRows :
                       q[1] = <<>> \/ RowCode(q[1][Len(q[1])]) <= RowCode(q[2]) } }

Thresholds == {200, 333, 500}
MinMonthsChoices == {1, 2}

\* ------------------------------------------------------------ aggregation
\* (MissingCount / DaysCount).round(3), in thousandths (half to even)
Round3(m, n) ==
    LET q == (1000 * m) \div n
        r == (1000 * m) % n
    IN  IF 2 * r < n THEN q
        ELSE IF 2 * r > n THEN q + 1
        ELSE IF q % 2 = 0 THEN q ELSE q + 1

Meta(r) == [StationNumber |-> r.StationNumber, StationName |-> r.StationName]

MetaLess(a, b) ==
    \/ a.StationNumber < b.StationNumber
    \/ a.StationNumber = b.StationNumber
         /\ NameRank(a.StationName) < NameRank(b.StationName)

DateLess(a, b) == a.year < b.year \/ (a.year = b.year /\ a.month < b.month)

\* sum(skipna=False): one NaN makes the sum NaN
RainSum_keep_nan(rows) ==
    IF \E i \in 1..Len(rows) : isna(rows[i].rain) THEN NaN
    ELSE SumSeq(MapRows(rows, LAMBDA r : r.rain))

\* ("rain", "sum"): NaN is skipped, an all-NaN group sums to 0
RainSum(rows) == SumSeq(MapRows(rows, LAMBDA r : IF isna(r.rain) THEN 0 ELSE r.rain))

\* ("rain", "size")
RainSize(rows) == Len(rows)

\* lambda s: s.isna().sum()
RainMissing(rows) == Len(SelectSeq(rows, LAMBDA r : isna(r.rain)))

\* PctMissing > missing_threshold
Incomplete(pct, threshold) == pct > threshold

\* groupby(META_COLS + ["YearMonth"], dropna=False): the keys, sorted
MonthKeys(d) == { [meta |-> Meta(d[i]), period |-> d[i].date] : i \in 1..Len(d) }

MonthKeyLess(a, b) ==
    \/ MetaLess(a.meta, b.meta)
    \/ a.meta = b.meta /\ DateLess(a.period, b.period)

MonthlyRow(d, k, threshold) ==
    LET rows == SelectSeq(d, LAMBDA r : Meta(r) = k.meta /\ r.date = k.period)
        pct == Round3(RainMissing(rows), RainSize(rows))
    IN  [StationNumber |-> k.meta.StationNumber,
         StationName |-> k.meta.StationName,
         YearMonth |-> YearMonthStr(k.period),
         MonthlyRainfall |-> RainSum(rows),
         DaysCount |-> RainSize(rows),
         MissingCount |-> RainMissing(rows),
         PctMissing |-> pct,
         IncompleteMonth |-> Incomplete(pct, threshold)]

MonthlyOrder_number_only(a, b) == a.StationNumber < b.StationNumber

\* sort_values(["Station Number", "YearMonth"]) on the string YearMonth
MonthlyOrder(a, b) ==
    \/ a.StationNumber < b.StationNumber
    \/ a.StationNumber = b.StationNumber /\ StrLess(a.YearMonth, b.YearMonth)

summarize_monthly(d, threshold) ==
    LET keys == SortedSeqOf(MonthKeys(d), MonthKeyLess)
        agg == MapRows(keys, LAMBDA k : MonthlyRow(d, k, threshold))
    IN  SortStable(agg, MonthlyOrder)

\* pivot_table groups on its index with the default dropna=True: a long row
\* with an empty metadata cell is in no group
HasNaMeta(r) == r.StationNumber = NaN \/ r.StationName = NA

\* aggfunc="sum" of one cell; a station/period pair without a long row stays NaN
PivotCell(rows, value(_)) ==
    IF rows = <<>> THEN NaN ELSE SumSeq(MapRows(rows, value))

pivot_wide(monthly_df) ==
    LET kept == SelectSeq(monthly_df, LAMBDA r : ~HasNaMeta(r))
        index == SortedSeqOf({ Meta(kept[i]) : i \in 1..Len(kept) }, MetaLess)
        columns == SortedSeqOf({ kept[i].YearMonth : i \in 1..Len(kept) }, StrLess)
        cell(m, c) ==
            PivotCell(SelectSeq(kept, LAMBDA r : Meta(r) = m /\ r.YearMonth = c),
                      LAMBDA r : r.MonthlyRainfall)
    IN  [columns |-> columns,
         rows |-> MapRows(index, LAMBDA m :
                    [StationNumber |-> m.StationNumber,
                     StationName |-> m.StationName,
                     cells |-> MapRows(columns, LAMBDA c : cell(m, c))])]

\* ----------------------------------------------------------------- annual
\* counts the group's records instead of its distinct months
NMonths_rows(rows) == Len(rows)

\* _nmonths: distinct (Year, Month) pairs of the group's dates
NMonths(rows) ==
    Cardinality({ <<rows[i].date.year, rows[i].date.month>> : i \in 1..Len(rows) })

Insufficient_at_most(months, minimum) == months <= minimum

\* MonthsObserved < min_months
Insufficient(months, minimum) == months < minimum

\* groupby(META_COLS + ["Year"], dropna=False): the keys
YearKeys(d) == { [meta |-> Meta(d[i]), period |-> d[i].date.year] : i \in 1..Len(d) }

YearKeyLess(a, b) ==
    \/ MetaLess(a.meta, b.meta)
    \/ a.meta = b.meta /\ a.period < b.period

AnnualRow(d, k, threshold, minimum) ==
    LET rows == SelectSeq(d, LAMBDA r : Meta(r) = k.meta /\ r.date.year = k.period)
        pct == Round3(RainMissing(rows), RainSize(rows))
        months == NMonths(rows)
        incomplete == Incomplete(pct, threshold)
        insufficient == Insufficient(months, minimum)
    IN  [StationNumber |-> k.meta.StationNumber,
         StationName |-> k.meta.StationName,
         Year |-> k.period,
         AnnualRainfall |-> RainSum(rows),
         DaysCount |-> RainSize(rows),
         MissingCount |-> RainMissing(rows),
         PctMissing |-> pct,
         MonthsObserved |-> months,
         MissingMonths |-> 12 - months,
         IncompleteYear |-> incomplete,
         InsufficientMonths |-> insufficient,
         Flagged |-> (incomplete \/ insufficient)]

\* sort_values(["Station Number", "Year"])
AnnualOrder(a, b) ==
    \/ a.StationNumber < b.StationNumber
    \/ a.StationNumber = b.StationNumber /\ a.Year < b.Year

summarize_annual(d, threshold, minimum) ==
    LET keys == SortedSeqOf(YearKeys(d), YearKeyLess)
        agg == MapRows(keys, LAMBDA k : AnnualRow(d, k, threshold, minimum))
    IN  SortStable(agg, AnnualOrder)

\* sorted(year_cols, key=int)
IntKeyLess(a, b) == IntOfStr(a) < IntOfStr(b)

pivot_wide_annual(annual_df) ==
    LET kept == SelectSeq(annual_df, LAMBDA r : ~HasNaMeta(r))
        index == SortedSeqOf({ Meta(kept[i]) : i \in 1..Len(kept) }, MetaLess)
        years == SortedSeqOf({ kept[i].Year : i \in 1..Len(kept) }, LAMBDA a, b : a < b)
        \* wide.columns = [str(c) for c in wide.columns]
        labels == MapRows(years, StrOfInt)
        cell(m, j) ==
            PivotCell(SelectSeq(kept, LAMBDA r : Meta(r) = m /\ r.Year = years[j]),
                      LAMBDA r : r.AnnualRainfall)
        year_cols == SelectSeq(labels, IsDigitStr)
        year_cols_sorted == SortStable(year_cols, IntKeyLess)
        \* wide[id_cols + year_cols_sorted]: the column with that label
        at(c) == CHOOSE j \in 1..Len(labels) : labels[j] = c
    IN  [columns |-> year_cols_sorted,
         rows |-> MapRows(index, LAMBDA m :
                    [StationNumber |-> m.StationNumber,
                     StationName |-> m.StationName,
                     cells |-> MapRows(year_cols_sorted, LAMBDA c : cell(m, at(c)))])]

\* ------------------------------------------------------------ load_folder
REQUIRED_COLS ==
    { "Station Number", "Station Name", "Height", "Easting",
      "Northing", "Latitude", "Longitude", "date", "rain" }

\* a date cell that did not parse (NaT)
NaT == [year |-> 0, month |-> 0]

\* DATE_FMT of run.py and the default of station1.py's --date-format
DateFormats == {"%d-%b-%y", "%Y-%m-%d"}
DateTokens == {"05-Feb-20", "2020-02-05"}
\* a reading of 0.2 mm and the text "tr" (trace)
RainTokens == {"0.2", "tr"}

\* pd.to_datetime(format=date_format, errors="coerce") of one cell
ToDatetime(token, format) ==
    CASE format = "%d-%b-%y" /\ token = "05-Feb-20" -> [year |-> 2020, month |-> 2]
      [] format = "%Y-%m-%d" /\ token = "2020-02-05" -> [year |-> 2020, month |-> 2]
      [] OTHER -> NaT

\* pd.to_numeric(errors="coerce") of one cell, in tenths of a millimetre
ToNumeric(token) ==
    CASE token = "0.2" -> 2
      [] OTHER -> NaN

RawRows ==
    { [StationNumber |-> 1, StationName |-> "Clara", date |-> d, rain |-> r] :
        d \in DateTokens, r \in RainTokens }

Headers == { REQUIRED_COLS, REQUIRED_COLS \ {"rain"} }

CsvFiles ==
    [ columns : Headers,
      rows : UNION { [1..k -> RawRows] : k \in 0..MaxFileRows } ]

FileNames == {"a.csv", "b.csv"}

Coerce(r, format) ==
    [StationNumber |-> r.StationNumber, StationName |-> r.StationName,
     date |-> ToDatetime(r.date, format), rain |-> ToNumeric(r.rain)]

\* dropna(subset=["date", "rain"])
DropInvalid_rain_too(rows) == SelectSeq(rows, LAMBDA r : r.date # NaT /\ ~isna(r.rain))

\* dropna(subset=["date"])
DropInvalid(rows) == SelectSeq(rows, LAMBDA r : r.date # NaT)

\* the columns check never fails
MissingCols_none(file) == {}

\* missing = [c for c in REQUIRED_COLS if c not in df.columns]
MissingCols(file) == { c \in REQUIRED_COLS : c \notin file.columns }

read_and_validate_csv(file, format) ==
    IF MissingCols(file) # {} THEN [raised |-> "ValueError", df |-> <<>>]
    ELSE [raised |-> "",
          df |-> DropInvalid(MapRows(file.rows, LAMBDA r : Coerce(r, format)))]

RECURSIVE Concat(_)
\* pd.concat(frames, ignore_index=True)
Concat(frames) ==
    IF frames = <<>> THEN <<>> ELSE frames[1] \o Concat(Tail(frames))

\* files: the contents of csv_files, in glob's order
load_folder(files, format) ==
    IF files = <<>> THEN [raised |-> "FileNotFoundError", df |-> <<>>]
    ELSE LET results == MapRows(files, LAMBDA f : read_and_validate_csv(f, format))
             frames == MapRows(SelectSeq(results, LAMBDA r : r.raised = ""),
                               LAMBDA r : r.df)
         IN  IF frames = <<>> THEN [raised |-> "RuntimeError", df |-> <<>>]
             ELSE [raised |-> "", df |-> Concat(frames)]

\* the orders glob may list the files in
Orders(S) ==
    { o \in UNION { [1..k -> S] : k \in {Cardinality(S)} } :
        \A i, j \in 1..Len(o) : i # j => o[i] # o[j] }

\* ----------------------------------------------------------------- script
\* the parts of the state a script does not use
StationIdle ==
    /\ df = None
    /\ missing_threshold = None
    /\ min_months = None
    /\ monthly = None
    /\ wide = None
    /\ annual = None
    /\ annual_wide = None
LoadIdle == folder = None /\ date_format = None /\ csv_files = None
SaveIdle == outputs = None /\ disk = None /\ saves = None
LagIdle ==
    ndvi_df = None /\ rain_df = None /\ season = None /\ lags = None /\ corr = None

\* run.py: load_folder; summarize_monthly; pivot_wide; summarize_annual;
\* pivot_wide_annual (its safe_save_csv calls are the subject of SpecSave)
Init ==
    /\ pc = "loaded"
    /\ df \in UNION { Tables(k) : k \in 0..MaxRows }
    /\ missing_threshold = None
    /\ min_months = None
    /\ monthly = None
    /\ wide = None
    /\ annual = None
    /\ annual_wide = None
    /\ folder = None
    /\ date_format = None
    /\ csv_files = None
    /\ raised = ""
    /\ SaveIdle
    /\ LagIdle

SummarizeMonthly ==
    /\ pc = "loaded"
    /\ \E t \in Thresholds :
        /\ missing_threshold' = t
        /\ monthly' = summarize_monthly(df, t)
    /\ pc' = "monthly"
    /\ UNCHANGED <<df, min_months, wide, annual, annual_wide, loadVars, saveVars, lagVars>>

PivotWide ==
    /\ pc = "monthly"
    /\ wide' = pivot_wide(monthly)
    /\ pc' = "wide"
    /\ UNCHANGED <<df, missing_threshold, min_months, monthly, annual, annual_wide, loadVars, saveVars, lagVars>>

SummarizeAnnual ==
    /\ pc = "wide"
    /\ \E m \in MinMonthsChoices :
        /\ min_months' = m
        /\ annual' = summarize_annual(df, missing_threshold, m)
    /\ pc' = "annual"
    /\ UNCHANGED <<df, missing_threshold, monthly, wide, annual_wide, loadVars, saveVars, lagVars>>

PivotWideAnnual ==
    /\ pc = "annual"
    /\ annual_wide' = pivot_wide_annual(annual)
    /\ pc' = "done"
    /\ UNCHANGED <<df, missing_threshold, min_months, monthly, wide, annual, loadVars, saveVars, lagVars>>

Next ==
    \/ SummarizeMonthly
    \/ PivotWide
    \/ SummarizeAnnual
    \/ PivotWideAnnual

Spec == Init /\ [][Next]_vars

\* station1.py main: load_folder, then summarize_monthly
InitLoad ==
    /\ pc = "start"
    /\ \E S \in SUBSET FileNames : folder \in [S -> CsvFiles]
    /\ date_format \in DateFormats
    /\ csv_files = None
    /\ raised = ""
    /\ df = None
    /\ missing_threshold = None
    /\ min_months = None
    /\ monthly = None
    /\ wide = None
    /\ annual = None
    /\ annual_wide = None
    /\ SaveIdle
    /\ LagIdle

LoadFolder ==
    /\ pc = "start"
    /\ \E order \in Orders(DOMAIN folder) :
        LET got == load_folder(MapRows(order, LAMBDA f : folder[f]), date_format)
        IN  /\ csv_files' = order
            /\ raised' = got.raised
            /\ df' = got.df
            /\ pc' = IF got.raised = "" THEN "loaded" ELSE "failed"
    /\ UNCHANGED <<folder, date_format, missing_threshold, min_months, monthly,
                   wide, annual, annual_wide, saveVars, lagVars>>

NextLoad ==
    \/ LoadFolder
    \/ SummarizeMonthly

SpecLoad == InitLoad /\ [][NextLoad]_vars

\* ------------------------------------------------------------ safe_save_csv
\* a path is its sequence of name parts, "." a part of its own:
\* <<"summary", ".", "csv">>
\* OUT_LONG of run.py, an output path without extension, one with two dots
OutputFiles ==
    { <<"claramonthly_rain_summary", ".", "csv">>,
      <<"summary">>,
      <<"rain", ".", "2025", ".", "txt">> }

\* time.strftime("%Y%m%d-%H%M%S") at two moments
Timestamps == {"20250101-120000", "20250101-120001"}

\* how a to_csv call ends: written, PermissionError (the file is open or locked),
\* or another OSError (the directory is missing, the disk is full)
Outcomes == {"ok", "PermissionError", "OSError"}

\* the tables run.py saves: monthly, wide, annual, annual_wide
SavedTables == <<"monthly", "wide", "annual", "annual_wide">>

\* os.path.splitext(p)[0]: p up to its last dot (a leading dot is no extension)
SplitextRoot(p) ==
    LET dots == { i \in 2..Len(p) : p[i] = "." }
    IN  IF dots = {} THEN p
        ELSE SubSeq(p, 1, (CHOOSE i \in dots : \A j \in dots : j <= i) - 1)

\* the fallback overwrites the target's own name
FallbackFile_same_name(output_file, timestamp) == output_file

\* f"{os.path.splitext(output_file)[0]}_{timestamp}.csv"
FallbackFile(output_file, timestamp) ==
    SplitextRoot(output_file) \o <<"_", timestamp, ".", "csv">>

\* df.to_csv(path, index=False) that succeeds
Written(d, path, table) ==
    [ p \in DOMAIN d \cup {path} |-> IF p = path THEN table ELSE d[p] ]

\* first, second: how the write to output_file and to the fallback end
safe_save_csv(d, table, output_file, first, second, timestamp) ==
    IF first = "ok" THEN
        [disk |-> Written(d, output_file, table), returned |-> output_file, raised |-> ""]
    ELSE IF first = "PermissionError" THEN
        LET fallback_file == FallbackFile(output_file, timestamp)
        IN  IF second = "ok" THEN
                [disk |-> Written(d, fallback_file, table),
                 returned |-> fallback_file, raised |-> ""]
            ELSE [disk |-> d, returned |-> None, raised |-> second]
    ELSE [disk |-> d, returned |-> None, raised |-> first]

\* run.py's four saves, to any output paths
InitSave ==
    /\ pc = "saving"
    /\ outputs \in [1..Len(SavedTables) -> OutputFiles]
    /\ disk = <<>>
    /\ saves = <<>>
    /\ raised = ""
    /\ StationIdle
    /\ LoadIdle
    /\ LagIdle

SaveCall(first, second, timestamp) ==
    LET n == Len(saves) + 1
        got == safe_save_csv(disk, SavedTables[n], outputs[n], first, second, timestamp)
    IN  /\ disk' = got.disk
        /\ raised' = got.raised
        /\ saves' = Append(saves,
                [table |-> SavedTables[n], output_file |-> outputs[n],
                 first |-> first, second |-> second, timestamp |-> timestamp,
                 returned |-> got.returned, raised |-> got.raised])
        /\ pc' = IF got.raised # "" THEN "failed"
                 ELSE IF n = Len(SavedTables) THEN "done" ELSE "saving"
        /\ UNCHANGED <<outputs, stationVars, folder, date_format, csv_files, lagVars>>

\* the first write succeeds or fails with something else than PermissionError
SaveDirect ==
    /\ pc = "saving"
    /\ \E first \in Outcomes \ {"PermissionError"} : SaveCall(first, "", "")

\* the first write fails with PermissionError: the clock is read and the
\* fallback is written
SaveFallback ==
    /\ pc = "saving"
    /\ \E second \in Outcomes, timestamp \in Timestamps :
        SaveCall("PermissionError", second, timestamp)

NextSave == SaveDirect \/ SaveFallback

SpecSave == InitSave /\ [][NextSave]_vars

\* -------------------------------------------------------- lagged_correlations
\* build_series' start_year
StartYear == 1984
\* min_ndvi, in hundredths
MinNdvi == 25
\* the fewest pairs a lag is correlated on
MinPairs == 3
\* the years of the input tables
NumYears == 6
\* the years the rainfall table may lack
MaxRainGaps == 1
LagYears == (StartYear - 1)..(StartYear + NumYears - 2)

\* what the NDVI table holds for a year: nothing, a summer value, a summer
\* value under min_ndvi, a winter value
NdviChoices == {"none", "summer", "summer-low", "winter"}
NdviRow(y, c) ==
    [year |-> y,
     season |-> IF c = "winter" THEN "WINTER" ELSE "SUMMER",
     NDVI |-> IF c = "summer-low" THEN MinNdvi - 5 ELSE 40 + (y - StartYear)]

\* a rainfall that differs from year to year
RainRow(y) == [year |-> y, rain_mm |-> 10 * (y - StartYear) + 700]

\* the rows Row(y) of the years of S, in ascending year
YearTable(S, Row(_)) ==
    MapRows(SortedSeqOf(S, LAMBDA a, b : a < b), Row)

\* drop_duplicates(subset=["year"], keep="last")
DropDuplicateYears(d) ==
    LET keep == { i \in 1..Len(d) : \A j \in (i + 1)..Len(d) : d[j].year # d[i].year }
    IN  MapRows(SortedSeqOf(keep, LAMBDA a, b : a < b), LAMBDA i : d[i])

YearLess(a, b) == a.year < b.year

build_series(d, s) ==
    LET picked == SelectSeq(d, LAMBDA r : r.season = s)
        unique == DropDuplicateYears(SortStable(picked, YearLess))
    IN  SelectSeq(unique, LAMBDA r : r.year >= StartYear /\ r.NDVI >= MinNdvi)

\* pd.merge(on="year", how="inner").sort_values("year")
prepare_merged(d, r, s) ==
    LET series == SelectSeq(build_series(d, s), LAMBDA x : x.NDVI >= MinNdvi)
        years == { series[i].year : i \in 1..Len(series) }
                    \cap { r[j].year : j \in 1..Len(r) }
        ndviOf(y) == (CHOOSE i \in 1..Len(series) : series[i].year = y)
        rainOf(y) == (CHOOSE j \in 1..Len(r) : r[j].year = y)
    IN  MapRows(SortedSeqOf(years, LAMBDA a, b : a < b),
                LAMBDA y : [year |-> y, ndvi |-> series[ndviOf(y)].NDVI,
                            rain |-> r[rainOf(y)].rain_mm])

\* tmp["rain"].shift(lag * -1), then dropna(subset=["ndvi", "rain_lag"]): row i
\* takes the rain of the row lag places further down, when there is one
LaggedPairs(base, lag) ==
    LET has == SortedSeqOf({ i \in 1..Len(base) : i + lag >= 1 /\ i + lag <= Len(base) },
                           LAMBDA a, b : a < b)
    IN  MapRows(has, LAMBDA i : [year |-> base[i].year, ndvi |-> base[i].ndvi,
                                 rain_lag |-> base[i + lag].rain])

LagOrder(a, b) == a.lag_years < b.lag_years

\* the three statistics of a row are functions of its pairs and not kept here
lagged_correlations(d, r, s, ls) ==
    LET base == prepare_merged(d, r, s)
        enough == SelectSeq(ls, LAMBDA lag : Len(LaggedPairs(base, lag)) >= MinPairs)
        rows == MapRows(enough, LAMBDA lag :
                    [season |-> s, lag_years |-> lag,
                     n |-> Len(LaggedPairs(base, lag)),
                     pairs |-> LaggedPairs(base, lag)])
    IN  \* pd.DataFrame([]) has no column "season" to sort by
        IF rows = <<>> THEN [raised |-> "KeyError", rows |-> <<>>]
        ELSE [raised |-> "", rows |-> SortStable(rows, LagOrder)]

\* the lags of the example run, and a shorter request
LagChoices == { <<-2, -1, 0, 1, 2>>, <<1, 0>> }

InitLag ==
    /\ pc = "start"
    /\ \E c \in [LagYears -> NdviChoices] :
        ndvi_df = YearTable({ y \in LagYears : c[y] # "none" }, LAMBDA y : NdviRow(y, c[y]))
    /\ \E G \in { H \in SUBSET LagYears : Cardinality(H) <= MaxRainGaps } :
        rain_df = YearTable(LagYears \ G, RainRow)
    /\ season \in {"SUMMER", "WINTER"}
    /\ lags \in LagChoices
    /\ corr = None
    /\ raised = ""
    /\ StationIdle
    /\ LoadIdle
    /\ SaveIdle

LaggedCorrelations ==
    /\ pc = "start"
    /\ LET got == lagged_correlations(ndvi_df, rain_df, season, lags)
       IN  /\ corr' = got.rows
           /\ raised' = got.raised
           /\ pc' = IF got.raised = "" THEN "correlated" ELSE "failed"
    /\ UNCHANGED <<ndvi_df, rain_df, season, lags, stationVars, folder,
                   date_format, csv_files, saveVars>>

NextLag == LaggedCorrelations

SpecLag == InitLag /\ [][NextLag]_vars

\* ------------------------------------------------ the claims, station part
AfterMonthly == pc \in {"monthly", "wide", "annual", "done"}
AfterWide == pc \in {"wide", "annual", "done"}
AfterAnnual == pc \in {"annual", "done"}
AfterAnnualWide == pc = "done"

\* the daily records of one station and month, of one station and year
MonthGroup(r) ==
    { i \in 1..Len(df) : Meta(df[i]) = Meta(r) /\ YearMonthStr(df[i].date) = r.YearMonth }
YearGroup(r) ==
    { i \in 1..Len(df) : Meta(df[i]) = Meta(r) /\ df[i].date.year = r.Year }
MissingOf(G) == { i \in G : df[i].rain = NaN }

RECURSIVE RainTotal(_)
RainTotal(G) ==
    IF G = {} THEN 0
    ELSE LET i == CHOOSE j \in G : TRUE IN df[i].rain + RainTotal(G \ {i})

\* p thousandths is m / n rounded to 3 decimals: within half a thousandth
IsRounded3(p, m, n) ==
    LET e == 1000 * m - p * n IN 2 * e <= n /\ 2 * e >= -n

\* C1 (as claimed): IncompleteMonth and IncompleteYear are true exactly when
\* the group's missing rows / all rows strictly exceeds missing_threshold.
C1_FlagIffFractionExceeds ==
    /\ AfterMonthly =>
        \A k \in 1..Len(monthly) :
            monthly[k].IncompleteMonth <=>
                1000 * Cardinality(MissingOf(MonthGroup(monthly[k])))
                    > missing_threshold * Cardinality(MonthGroup(monthly[k]))
    /\ AfterAnnual =>
        \A k \in 1..Len(annual) :
            annual[k].IncompleteYear <=>
                1000 * Cardinality(MissingOf(YearGroup(annual[k])))
                    > missing_threshold * Cardinality(YearGroup(annual[k]))

\* C2: every monthly row has MonthlyRainfall = the sum of the group's
\* non-missing rain (0 when all are missing), DaysCount = the group's rows,
\* MissingCount = its rows with missing rain, PctMissing = MissingCount /
\* DaysCount rounded to 3 decimals.
C2_MonthlyAggregates ==
    AfterMonthly =>
        \A k \in 1..Len(monthly) :
            LET r == monthly[k]
                G == MonthGroup(r)
            IN  /\ r.MonthlyRainfall = RainTotal(G \ MissingOf(G))
                /\ (G = MissingOf(G) => r.MonthlyRainfall = 0)
                /\ r.DaysCount = Cardinality(G)
                /\ r.MissingCount = Cardinality(MissingOf(G))
                /\ IsRounded3(r.PctMissing, Cardinality(MissingOf(G)), Cardinality(G))

\* a month of three records, one of them without rain: 4 (tenths of) mm, 0.333
C2_Witness ==
    /\ pc = "monthly"
    /\ \E k \in 1..Len(monthly) :
        /\ monthly[k].DaysCount = 3
        /\ monthly[k].MissingCount = 1
        /\ monthly[k].MonthlyRainfall = 4
        /\ monthly[k].PctMissing = 333

\* C3: InsufficientMonths is true exactly when the distinct months with a
\* record in that station's year are fewer than min_months (as many as
\* min_months is not flagged); Flagged = IncompleteYear or InsufficientMonths.
C3_InsufficientMonths ==
    AfterAnnual =>
        \A k \in 1..Len(annual) :
            LET r == annual[k]
                months == { df[i].date.month : i \in YearGroup(r) }
            IN  /\ r.MonthsObserved = Cardinality(months)
                /\ r.InsufficientMonths <=> Cardinality(months) < min_months
                /\ r.Flagged <=> (r.IncompleteYear \/ r.InsufficientMonths)

\* one year with exactly min_months months (not flagged) beside a year with
\* fewer (flagged for that alone)
C3_Witness ==
    /\ pc = "annual"
    /\ \E j, k \in 1..Len(annual) :
        /\ annual[j].MonthsObserved = min_months
        /\ ~annual[j].InsufficientMonths
        /\ annual[k].MonthsObserved < min_months
        /\ annual[k].InsufficientMonths
        /\ ~annual[k].IncompleteYear
        /\ annual[k].Flagged

CellValue(c) == IF c = NaN THEN 0 ELSE c

\* the wide table has one row for every station of the long table, and that
\* row's period cells add up to the station's long rainfall
RoundTrips(long, table, value(_)) ==
    \A k \in 1..Len(long) :
        LET mine == SelectSeq(table.rows, LAMBDA w : Meta(w) = Meta(long[k]))
            same == SelectSeq(long, LAMBDA r : Meta(r) = Meta(long[k]))
        IN  /\ Len(mine) = 1
            /\ SumSeq(MapRows(mine[1].cells, CellValue)) = SumSeq(MapRows(same, value))

\* C9 (as claimed): pivot_wide and pivot_wide_annual give exactly one row for
\* every station of the long summary, whose period cells (empty cells as 0)
\* sum to that station's rainfall in the long summary.
C9_WideRoundTrip ==
    /\ AfterWide => RoundTrips(monthly, wide, LAMBDA r : r.MonthlyRainfall)
    /\ AfterAnnualWide => RoundTrips(annual, annual_wide, LAMBDA r : r.AnnualRainfall)

\* "2020-02" read back as numbers
YearOf(ym) == IntOfStr(SubSeq(ym, 1, 4))
MonthOf(ym) == IntOfStr(SubSeq(ym, 6, 7))
MonthBefore(a, b) ==
    YearOf(a) < YearOf(b) \/ (YearOf(a) = YearOf(b) /\ MonthOf(a) < MonthOf(b))

\* every station/period with a daily record has a row, and every row has one
CoversMonths ==
    /\ \A i \in 1..Len(df) : \E k \in 1..Len(monthly) : i \in MonthGroup(monthly[k])
    /\ \A k \in 1..Len(monthly) : MonthGroup(monthly[k]) # {}
CoversYears ==
    /\ \A i \in 1..Len(df) : \E k \in 1..Len(annual) : i \in YearGroup(annual[k])
    /\ \A k \in 1..Len(annual) : YearGroup(annual[k]) # {}

\* C10 (as claimed): one row per (station, period) with a daily record, no
\* two rows with the same Station Number and period, rows ascending by
\* Station Number and, within it, by period.
C10_UniqueByStationNumber ==
    /\ AfterMonthly =>
        /\ CoversMonths
        /\ \A j, k \in 1..Len(monthly) :
            j < k =>
                /\ ~(monthly[j].StationNumber = monthly[k].StationNumber
                        /\ monthly[j].YearMonth = monthly[k].YearMonth)
                /\ monthly[j].StationNumber <= monthly[k].StationNumber
                /\ monthly[j].StationNumber = monthly[k].StationNumber
                        => MonthBefore(monthly[j].YearMonth, monthly[k].YearMonth)
    /\ AfterAnnual =>
        /\ CoversYears
        /\ \A j, k \in 1..Len(annual) :
            j < k =>
                /\ ~(annual[j].StationNumber = annual[k].StationNumber
                        /\ annual[j].Year = annual[k].Year)
                /\ annual[j].StationNumber <= annual[k].StationNumber
                /\ annual[j].StationNumber = annual[k].StationNumber
                        => annual[j].Year < annual[k].Year

\* C10 (amended): one row per (station metadata, period) with a daily record,
\* no two rows with the same metadata and period; rows ascending by Station
\* Number, among equal Station Numbers never descending in period, and
\* strictly ascending in period within one station's metadata.
C10_UniqueByStationIdentity ==
    /\ AfterMonthly =>
        /\ CoversMonths
        /\ \A j, k \in 1..Len(monthly) :
            j < k =>
                /\ ~(Meta(monthly[j]) = Meta(monthly[k])
                        /\ monthly[j].YearMonth = monthly[k].YearMonth)
                /\ monthly[j].StationNumber <= monthly[k].StationNumber
                /\ monthly[j].StationNumber = monthly[k].StationNumber
                        => ~MonthBefore(monthly[k].YearMonth, monthly[j].YearMonth)
                /\ Meta(monthly[j]) = Meta(monthly[k])
                        => MonthBefore(monthly[j].YearMonth, monthly[k].YearMonth)
    /\ AfterAnnual =>
        /\ CoversYears
        /\ \A j, k \in 1..Len(annual) :
            j < k =>
                /\ ~(Meta(annual[j]) = Meta(annual[k]) /\ annual[j].Year = annual[k].Year)
                /\ annual[j].StationNumber <= annual[k].StationNumber
                /\ annual[j].StationNumber = annual[k].StationNumber
                        => annual[j].Year <= annual[k].Year
                /\ Meta(annual[j]) = Meta(annual[k]) => annual[j].Year < annual[k].Year

\* two stations that share Station Number 1 in the same month, and a second
\* Station Number after them
C10_Witness ==
    /\ pc = "monthly"
    /\ Len(monthly) = 3
    /\ monthly[1].StationNumber = monthly[2].StationNumber
    /\ monthly[1].YearMonth = monthly[2].YearMonth
    /\ monthly[1].StationName # monthly[2].StationName
    /\ monthly[2].StationNumber < monthly[3].StationNumber

\* -------------------------------------------------- the claims, load part
Loaded == pc \in {"loaded", "monthly"}

\* the files of the folder that have every required column
ValidFiles == { f \in DOMAIN folder : REQUIRED_COLS \subseteq folder[f].columns }

\* the rows of file f whose date parses with date_format
Parsed(f) ==
    { i \in 1..Len(folder[f].rows) :
        ToDatetime(folder[f].rows[i].date, date_format) # NaT }
Unreadable(f) == { i \in Parsed(f) : ToNumeric(folder[f].rows[i].rain) = NaN }

RECURSIVE SumOver(_, _)
SumOver(S, n) ==
    IF S = {} THEN 0
    ELSE LET f == CHOOSE g \in S : TRUE IN n[f] + SumOver(S \ {f}, n)

\* the sum of count(f) over the files of S
Total(S, count(_)) == SumOver(S, [f \in S |-> count(f)])

\* where the rows of csv_files[j] start in the concatenation
Offset(j) ==
    Total({ csv_files[i] : i \in { h \in 1..(j - 1) : csv_files[h] \in ValidFiles } },
          LAMBDA f : Cardinality(Parsed(f)))

\* C4: a file lacking a required column is skipped; with a validated file
\* load_folder returns the validated files' rows, concatenated in the order
\* of the file list and nothing else; with none, or no file, it raises.
C4_LoadFolder ==
    pc # "start" =>
        /\ { csv_files[j] : j \in 1..Len(csv_files) } = DOMAIN folder
        /\ ValidFiles = {} => raised # "" /\ pc = "failed"
        /\ ValidFiles # {} =>
            /\ raised = ""
            /\ Len(df) = Total(ValidFiles, LAMBDA f : Cardinality(Parsed(f)))
            /\ \A j \in 1..Len(csv_files) :
                csv_files[j] \in ValidFiles =>
                    \A i \in Parsed(csv_files[j]) :
                        df[Offset(j) + Cardinality({ h \in Parsed(csv_files[j]) : h <= i })]
                            = Coerce(folder[csv_files[j]].rows[i], date_format)

\* a skipped file that has rows beside a validated file that has rows
C4_Witness ==
    /\ pc = "loaded"
    /\ \E f, g \in DOMAIN folder :
        /\ f \notin ValidFiles /\ Len(folder[f].rows) > 0
        /\ g \in ValidFiles /\ Parsed(g) # {}
    /\ Len(df) > 0

\* the rows of the validated files whose date parses
KeptRows == Total(ValidFiles, LAMBDA f : Cardinality(Parsed(f)))
KeptWithoutRain == Total(ValidFiles, LAMBDA f : Cardinality(Unreadable(f)))

\* C5: in a file with all required columns a row whose date does not parse
\* is dropped, a row whose date parses is kept whatever its rain cell; kept
\* with unreadable rain it carries NaN and counts in DaysCount and in
\* MissingCount of its station/month.
C5_KeepsMissingRain ==
    /\ Loaded =>
        /\ \A i \in 1..Len(df) : df[i].date # NaT
        /\ Len(df) = KeptRows
        /\ Cardinality({ i \in 1..Len(df) : df[i].rain = NaN }) = KeptWithoutRain
    /\ pc = "monthly" =>
        /\ KeptRows > 0 => Len(monthly) = 1
        /\ \A k \in 1..Len(monthly) :
            /\ monthly[k].DaysCount = KeptRows
            /\ monthly[k].MissingCount = KeptWithoutRain

\* one file with a row whose date does not parse and a row whose rain does not
C5_Witness ==
    /\ pc = "monthly"
    /\ \E f \in ValidFiles :
        /\ Cardinality(Parsed(f)) < Len(folder[f].rows)
        /\ Unreadable(f) # {}
    /\ monthly[1].MissingCount > 0
    /\ monthly[1].DaysCount > monthly[1].MissingCount

\* -------------------------------------------------- the claims, save part
\* the call returned a path, and while it is the last call that path holds
\* the call's table
Delivered(k) ==
    /\ saves[k].raised = ""
    /\ k = Len(saves) =>
        /\ saves[k].returned \in DOMAIN disk
        /\ disk[saves[k].returned] = saves[k].table

\* C6 (as claimed): no failed write aborts the run: a failed write to the
\* target is followed by a write to a differently named path, which is
\* returned without raising; a successful one returns the target; the
\* returned path holds the data.
C6_NeverAborts ==
    pc \in {"saving", "done", "failed"} =>
        /\ raised = ""
        /\ \A k \in 1..Len(saves) :
            /\ Delivered(k)
            /\ saves[k].first = "ok" => saves[k].returned = saves[k].output_file
            /\ saves[k].first # "ok" => saves[k].returned # saves[k].output_file

\* C6 (amended): a successful first write returns the target; a first write
\* that fails with PermissionError is followed by a write to
\* <target without extension>_<timestamp>.csv, a different path, which is
\* returned without raising when that write succeeds; in both cases the
\* returned path holds the data. Any other failure of the first write, and
\* any failure of the fallback write, is raised and ends the run.
C6_FallbackOnPermissionError ==
    pc \in {"saving", "done", "failed"} =>
        \A k \in 1..Len(saves) :
            LET c == saves[k] IN
            /\ c.first = "ok" => Delivered(k) /\ c.returned = c.output_file
            /\ c.first = "PermissionError" /\ c.second = "ok" =>
                /\ Delivered(k)
                /\ c.returned # c.output_file
                /\ c.output_file \notin DOMAIN disk \/ disk[c.output_file] # c.table
                        \/ \E j \in 1..(k - 1) : saves[j].table = c.table
                /\ Len(c.returned) >= 4
                /\ SubSeq(c.returned, Len(c.returned) - 3, Len(c.returned))
                        = <<"_", c.timestamp, ".", "csv">>
            /\ (c.first = "OSError" \/ (c.first = "PermissionError" /\ c.second # "ok")) =>
                /\ c.raised # ""
                /\ k = Len(saves)
                /\ raised = c.raised
                /\ pc = "failed"

\* the target is locked, the timestamped file is written and returned
C6_Witness ==
    /\ Len(saves) > 0
    /\ saves[Len(saves)].first = "PermissionError"
    /\ saves[Len(saves)].second = "ok"
    /\ saves[Len(saves)].returned # saves[Len(saves)].output_file
    /\ disk[saves[Len(saves)].returned] = saves[Len(saves)].table

\* --------------------------------------------------- the claims, lag part
\* C7 (as claimed): every pair correlated for lag L is the vegetation value
\* of a year t with the rainfall of year t + L; a year t without rainfall for
\* year t + L gives no pair.
C7_PairsByYear ==
    pc = "correlated" =>
        \A k \in 1..Len(corr) :
            \A i \in 1..Len(corr[k].pairs) :
                LET p == corr[k].pairs[i] IN
                /\ \E j \in 1..Len(ndvi_df) :
                    /\ ndvi_df[j].year = p.year
                    /\ ndvi_df[j].season = season
                    /\ ndvi_df[j].NDVI = p.ndvi
                /\ \E j \in 1..Len(rain_df) :
                    /\ rain_df[j].year = p.year + corr[k].lag_years
                    /\ rain_df[j].rain_mm = p.rain_lag

\* the lags of the request that have at least MinPairs pairs
LagsWithPairs ==
    LET base == prepare_merged(ndvi_df, rain_df, season)
    IN  { lags[i] : i \in { j \in 1..Len(lags) :
                        Len(LaggedPairs(base, lags[j])) >= MinPairs } }

\* C8 (as claimed): one row for each requested lag with at least 3 pairs, n
\* its number of pairs, no row for another lag, and never an error: with no
\* lag left the result is empty.
C8_OneRowPerLag ==
    pc \in {"correlated", "failed"} =>
        /\ raised = ""
        /\ { corr[k].lag_years : k \in 1..Len(corr) } = LagsWithPairs
        /\ Len(corr) = Cardinality(LagsWithPairs)
        /\ \A k \in 1..Len(corr) : corr[k].n = Len(corr[k].pairs) /\ corr[k].n >= MinPairs

\* ------------------------------------------------ the claims, roll-up part
\* the monthly rows of an annual row's station and year
MonthsOf(r) ==
    { j \in 1..Len(monthly) :
        Meta(monthly[j]) = Meta(r) /\ YearOf(monthly[j].YearMonth) = r.Year }

\* the sum of a column over the monthly rows of M
MonthlyTotal(M, column(_)) == SumOver(M, MapRows(monthly, column))

\* C11: for the same daily records, every annual row's AnnualRainfall,
\* DaysCount and MissingCount are the sums of MonthlyRainfall, DaysCount and
\* MissingCount over its station's monthly rows of that year, MonthsObserved
\* is the number of those rows, MissingMonths is 12 - MonthsObserved and lies
\* in 0..11; every monthly row rolls up into an annual row, and the DaysCount
\* of all monthly rows, and of all annual rows, sum to the number of records.
C11_AnnualRollUp ==
    AfterAnnual =>
        /\ \A k \in 1..Len(annual) :
            LET r == annual[k]
                M == MonthsOf(r)
            IN  /\ r.AnnualRainfall = MonthlyTotal(M, LAMBDA m : m.MonthlyRainfall)
                /\ r.DaysCount = MonthlyTotal(M, LAMBDA m : m.DaysCount)
                /\ r.MissingCount = MonthlyTotal(M, LAMBDA m : m.MissingCount)
                /\ r.MonthsObserved = Cardinality(M)
                /\ r.MissingMonths = 12 - r.MonthsObserved
                /\ r.MissingMonths >= 0 /\ r.MissingMonths <= 11
        /\ \A j \in 1..Len(monthly) : \E k \in 1..Len(annual) : j \in MonthsOf(annual[k])
        /\ SumSeq(MapRows(monthly, LAMBDA m : m.DaysCount)) = Len(df)
        /\ SumSeq(MapRows(annual, LAMBDA r : r.DaysCount)) = Len(df)

\* a station's year of two months, one of them with two records, one of the
\* three records without rain
C11_Witness ==
    /\ pc = "annual"
    /\ \E k \in 1..Len(annual) :
        /\ Cardinality(MonthsOf(annual[k])) = 2
        /\ annual[k].DaysCount = 3
        /\ annual[k].MissingCount = 1
        /\ annual[k].AnnualRainfall = 4

====
